---- MODULE Spec2Model ----
(***************************************************************************)
(* A model of src/bip32.py: BIP32 extended keys, their base58check text    *)
(* form, derivation-path segments, CKDpriv / N / CKDpub and derive_key.    *)
(*                                                                         *)
(* Representation.                                                         *)
(*  - bytes are sequences of 0..255; text is a sequence of one-character   *)
(*    strings.                                                             *)
(*  - a Python int that may leave the 31-bit range (a child index) is a    *)
(*    record [h, r] standing for h * 2^31 + r with 0 <= r < 2^31, so that   *)
(*    every comparison against 2^31 and 2^32 the code makes is exact.      *)
(*  - the libraries (hmac/hashlib, ecdsa, base58) are modelled by what     *)
(*    they do on a scaled domain: the curve is a cyclic group of order     *)
(*    CurveOrder whose point k*G is written k (0 is the point at           *)
(*    infinity), a 256-bit number is one of 0..ILSpace-1 in 32 bytes, and  *)
(*    the hash functions are deterministic mixing functions.  base58 is    *)
(*    the real radix conversion on digit sequences.                        *)
(***************************************************************************)
EXTENDS Integers, Sequences, FiniteSets, TLC

\* ------------------------------------------------------------------ bounds
\* order of the scaled curve group (stands for SECP256k1.order)
CurveOrder == 11
\* number of values the left half of an HMAC output takes (stands for 2^256)
ILSpace == 16
\* longest enumerated derivation-path segment text
MaxSegLen == 3
\* seeds are the one-byte strings <<1>> .. <<NumSeeds>>
NumSeeds == 6
\* most segments after the root in an enumerated derivation path
MaxPathLen == 2

\* --------------------------------------------------------- program constants
\* NORMAL_CHILD_KEY_COUNT - 1 = 2^31 - 1, the largest normal child index
MaxNormalIndex == 2147483647

\* ------------------------------------------------------------- Python ints
\* h * 2^31 + r
PInt(h, r) == [h |-> h, r |-> r]

PyOfNat(n) == PInt(0, n)

\* x + y
PyAdd(x, y) ==
  IF x.r - (MaxNormalIndex - y.r) - 1 >= 0
  THEN PInt(x.h + y.h + 1, x.r - (MaxNormalIndex - y.r) - 1)
  ELSE PInt(x.h + y.h, x.r + y.r)

\* -x
PyNeg(x) ==
  IF x.r = 0 THEN PInt(0 - x.h, 0)
  ELSE PInt(0 - x.h - 1, (MaxNormalIndex - x.r) + 1)

\* x * 10 + d, as Python's int() accumulates decimal digits
PyMul10Add(x, d) ==
  PyAdd(PyAdd(PyAdd(PyAdd(x, x), PyAdd(x, x)), PyAdd(PyAdd(x, x), PyAdd(x, x))),
        PyAdd(PyAdd(x, x), PyOfNat(d)))

\* index += 1
PyInc(x) == PyAdd(x, PyOfNat(1))

\* index += NORMAL_CHILD_KEY_COUNT
AddChildKeyCount(x) == PInt(x.h + 1, x.r)

\* index >= NORMAL_CHILD_KEY_COUNT
GeChildKeyCount(x) == x.h >= 1

\* index < 2**32
LtTwo32(x) == x.h <= 1

\* index.to_bytes(4, "big"): OverflowError outside [0, 2^32)
IndexFits4(x) == x.h \in {0, 1}

IndexToBytes4(x) ==
  << x.h * 128 + (x.r \div 16777216),
     (x.r \div 65536) % 256,
     (x.r \div 256) % 256,
     x.r % 256 >>

\* ------------------------------------------------------------------- text
Digits == {"0", "1", "2", "3", "4", "5", "6", "7", "8", "9"}

DigitVal(c) ==
  CASE c = "0" -> 0 [] c = "1" -> 1 [] c = "2" -> 2 [] c = "3" -> 3
    [] c = "4" -> 4 [] c = "5" -> 5 [] c = "6" -> 6 [] c = "7" -> 7
    [] c = "8" -> 8 [] c = "9" -> 9

Whitespace == {" "}

\* s.lstrip(cs)
LStrip(s, cs) ==
  IF \A i \in 1..Len(s) : s[i] \in cs THEN <<>>
  ELSE SubSeq(s, CHOOSE i \in 1..Len(s) :
                   s[i] \notin cs /\ \A j \in 1..(i - 1) : s[j] \in cs,
              Len(s))

\* s.rstrip(cs)
RStrip(s, cs) ==
  IF \A i \in 1..Len(s) : s[i] \in cs THEN <<>>
  ELSE SubSeq(s, 1, CHOOSE i \in 1..Len(s) :
                      s[i] \notin cs /\ \A j \in (i + 1)..Len(s) : s[j] \in cs)

\* the digits of a literal: single underscores are allowed between digits
RECURSIVE DigitsOk(_, _)
DigitsOk(s, prevDigit) ==
  IF s = <<>> THEN prevDigit
  ELSE IF Head(s) \in Digits THEN DigitsOk(Tail(s), TRUE)
  ELSE IF Head(s) = "_" THEN prevDigit /\ DigitsOk(Tail(s), FALSE)
  ELSE FALSE

RECURSIVE DigitsValue(_, _)
DigitsValue(s, acc) ==
  IF s = <<>> \/ acc.r < 0 THEN acc
  ELSE IF Head(s) = "_" THEN DigitsValue(Tail(s), acc)
  ELSE DigitsValue(Tail(s), PyMul10Add(acc, DigitVal(Head(s))))

\* Python's int(text): [ok, val]; not ok is ValueError
PyIntParse(text) ==
  LET t == RStrip(LStrip(text, Whitespace), Whitespace)
      signed == t # <<>> /\ Head(t) \in {"+", "-"}
      body == IF signed THEN Tail(t) ELSE t
  IN IF body = <<>> \/ ~DigitsOk(body, FALSE)
     THEN [ok |-> FALSE, val |-> PyOfNat(0)]
     ELSE [ok |-> TRUE,
           val |-> IF signed /\ Head(t) = "-"
                   THEN PyNeg(DigitsValue(body, PyOfNat(0)))
                   ELSE DigitsValue(body, PyOfNat(0))]

\* -------------------------------------------------------- segment_to_index
HardenedMarks == {"h", "H", "'"}

SegResult(err, index, hardened) ==
  [err |-> err, index |-> index, hardened |-> hardened]

SegFail(err) == SegResult(err, PyOfNat(0), FALSE)

segment_to_index(segment) ==
  IF segment = <<>> THEN SegFail("IndexError")
  ELSE
    LET hardened == segment[Len(segment)] \in HardenedMarks
        text == IF hardened THEN SubSeq(segment, 1, Len(segment) - 1) ELSE segment
        parsed == PyIntParse(text)
    IN IF ~parsed.ok THEN SegFail("ValueError")
       ELSE IF ~(parsed.val.h <= 0) THEN SegFail("AssertionError")
       ELSE SegResult("none",
                      IF hardened THEN AddChildKeyCount(parsed.val) ELSE parsed.val,
                      hardened)

\* ------------------------------------------------------------------ bytes
Zeros(n) == [i \in 1..n |-> 0]

Min(a, b) == IF a <= b THEN a ELSE b

\* int.from_bytes(bs, "big")
RECURSIVE IntFromBytesAcc(_, _, _)
IntFromBytesAcc(bs, i, acc) ==
  IF i > Len(bs) THEN acc ELSE IntFromBytesAcc(bs, i + 1, acc * 256 + bs[i])

IntFromBytes(bs) == IntFromBytesAcc(bs, 1, 0)

\* n.to_bytes(32, "big") for 0 <= n < 2^31
IntToBytes32(n) ==
  Zeros(28) \o << n \div 16777216, (n \div 65536) % 256, (n \div 256) % 256, n % 256 >>

\* ------------------------------------------------- hashlib / hmac (scaled)
\* a deterministic mixing function of a byte string; salt separates the uses
MixStep(acc, b, i) == (acc * acc + acc * 31 + b * 7 + i) % 32749

\* the fold of MixStep over bs[lo..hi], halving the range
RECURSIVE MixRange(_, _, _, _)
MixThen(acc, bs, lo, hi) ==
  IF acc < 0 THEN acc ELSE MixRange(bs, lo, hi, acc)

MixRange(bs, lo, hi, acc) ==
  IF lo > hi THEN acc
  ELSE IF lo = hi THEN MixStep(acc, bs[lo], lo)
  ELSE MixThen(MixRange(bs, lo, (lo + hi) \div 2, acc), bs, ((lo + hi) \div 2) + 1, hi)

MixFinal(acc) == MixStep(MixStep(MixStep(acc, 91, 1), 173, 2), 29, 3)

Mix(bs, salt) == MixFinal(MixRange(bs, 1, Len(bs), salt))

\* the first four bytes of a digest of bs
HashBytes(m1, m2) == << m1 % 256, (m1 \div 256) % 256, m2 % 256, (m2 \div 256) % 256 >>

Hash4(bs, salt) == HashBytes(Mix(bs, salt), Mix(bs, salt + 7))

\* hmac.new(key, msg, "sha512").digest(): 64 bytes, IL (32) then IR (32)
HmacInput(msg) ==
  IntToBytes32(Mix(msg, 1) % ILSpace) \o Zeros(30) \o << Mix(msg, 2) % 256, Mix(msg, 3) % 256 >>

hmac_(key, data) == HmacInput(key \o <<255>> \o data)

\* ------------------------------------------------------ ecdsa (scaled curve)
\* k * SECP256k1.generator; 0 is the point at infinity
PointMul(k) == k % CurveOrder

PointAdd(p, q) == (p + q) % CurveOrder

\* to_string("compressed") of a finite point: parity prefix, x coordinate
\* (k*G and -k*G share x and differ in parity)
Compress(p) ==
  IF 2 * p <= CurveOrder
  THEN <<2>> \o IntToBytes32(p)
  ELSE <<3>> \o IntToBytes32(CurveOrder - p)

\* VerifyingKey.from_string(...).pubkey.point: [ok, point]
Decompress(bs) ==
  IF Len(bs) # 33 \/ bs[1] \notin {2, 3} \/ SubSeq(bs, 2, 29) # Zeros(28)
  THEN [ok |-> FALSE, point |-> 0]
  ELSE LET x == IntFromBytes(SubSeq(bs, 30, 33))
       IN IF x < 1 \/ x >= CurveOrder \/ Compress(IF bs[1] = 2 THEN x ELSE CurveOrder - x) # bs
          THEN [ok |-> FALSE, point |-> 0]
          ELSE [ok |-> TRUE, point |-> IF bs[1] = 2 THEN x ELSE CurveOrder - x]

\* ----------------------------------------------------------------- base58
BITCOIN_ALPHABET ==
  << "1", "2", "3", "4", "5", "6", "7", "8", "9",
     "A", "B", "C", "D", "E", "F", "G", "H", "J", "K", "L", "M", "N", "P", "Q",
     "R", "S", "T", "U", "V", "W", "X", "Y", "Z",
     "a", "b", "c", "d", "e", "f", "g", "h", "i", "j", "k", "m", "n", "o", "p",
     "q", "r", "s", "t", "u", "v", "w", "x", "y", "z" >>

AlphabetSet == {BITCOIN_ALPHABET[i] : i \in 1..58}

CharIndex(c) == CHOOSE i \in 1..58 : BITCOIN_ALPHABET[i] = c

\* long division of the digits ds[lo..hi] (radix base) by d, with the
\* remainder rem carried in: [q, r]; the range is halved
DivJoin(left, right) == [q |-> left.q \o right.q, r |-> right.r]

RECURSIVE LongDivRange(_, _, _, _, _, _)
LongDivThen(left, ds, lo, hi, base, d) ==
  IF left.r < 0 THEN left
  ELSE DivJoin(left, LongDivRange(ds, lo, hi, base, d, left.r))

LongDivRange(ds, lo, hi, base, d, rem) ==
  IF lo > hi THEN [q |-> <<>>, r |-> rem]
  ELSE IF lo = hi
  THEN [q |-> <<(rem * base + ds[lo]) \div d>>, r |-> (rem * base + ds[lo]) % d]
  ELSE LongDivThen(LongDivRange(ds, lo, (lo + hi) \div 2, base, d, rem),
                   ds, ((lo + hi) \div 2) + 1, hi, base, d)

LongDiv(ds, base, d) == LongDivRange(ds, 1, Len(ds), base, d, 0)

\* the digits of a number in radix `to`, from its digits in radix `from`:
\* repeated division by to^3, three digits of the result at a time; no
\* leading zero digit, the empty string for zero
RECURSIVE Radix(_, _, _, _)
RadixEmit(qr, from, to, out) ==
  Radix(qr.q, from, to,
        << qr.r \div (to * to), (qr.r \div to) % to, qr.r % to >> \o out)

Radix(ds, from, to, out) ==
  IF LStrip(ds, {0}) = <<>> THEN LStrip(out, {0})
  ELSE RadixEmit(LongDiv(LStrip(ds, {0}), from, to * to * to), from, to, out)

LeadingCount(s, c) == Len(s) - Len(LStrip(s, {c}))

\* base58.b58encode(v)
EncodeDigits(zeros, ds) ==
  [i \in 1..zeros |-> BITCOIN_ALPHABET[1]]
    \o [i \in 1..Len(ds) |-> BITCOIN_ALPHABET[ds[i] + 1]]

b58encode(v) == EncodeDigits(LeadingCount(v, 0), Radix(v, 256, 58, <<>>))

\* base58.b58decode(v): [ok, val]; a character outside the alphabet is ValueError
DecodeStripped(t) ==
  IF \E i \in 1..Len(t) : t[i] \notin AlphabetSet
  THEN [ok |-> FALSE, val |-> <<>>]
  ELSE [ok |-> TRUE,
        val |-> Zeros(LeadingCount(t, BITCOIN_ALPHABET[1]))
                  \o Radix([i \in 1..Len(t) |-> CharIndex(t[i]) - 1], 58, 256, <<>>)]

b58decode(v) == DecodeStripped(RStrip(v, Whitespace))

\* the double-SHA256 checksum of base58check
Checksum(payload) == Hash4(payload, 11)

\* base58.b58encode_check(v)
b58encode_check(v) == b58encode(v \o Checksum(v))

\* base58.b58decode_check(v): [ok, val]; not ok is ValueError
VerifyChecksum(d) ==
  IF ~d.ok THEN [ok |-> FALSE, val |-> <<>>]
  ELSE IF Len(d.val) < 4
            \/ SubSeq(d.val, Len(d.val) - 3, Len(d.val))
                 # Checksum(SubSeq(d.val, 1, Len(d.val) - 4))
  THEN [ok |-> FALSE, val |-> <<>>]
  ELSE [ok |-> TRUE, val |-> SubSeq(d.val, 1, Len(d.val) - 4)]

b58decode_check(v) == VerifyChecksum(b58decode(v))

\* ------------------------------------------------------------- ExtendedKey
MainnetPublic == <<4, 136, 178, 30>>
MainnetPrivate == <<4, 136, 173, 228>>
TestnetPublic == <<4, 53, 135, 207>>
TestnetPrivate == <<4, 53, 131, 148>>

\* VERSIONS["mainnet" if mainnet else "testnet"]["private" if private else "public"]
VERSIONS(mainnet, private) ==
  IF mainnet THEN (IF private THEN MainnetPrivate ELSE MainnetPublic)
  ELSE (IF private THEN TestnetPrivate ELSE TestnetPublic)

\* set(VERSIONS["mainnet"].values()) | set(VERSIONS["testnet"].values())
KnownVersions == {VERSIONS(m, v) : m \in BOOLEAN, v \in BOOLEAN}

KeyRecord(version, depth, finger, child_number, chain_code, data) ==
  [version |-> version, depth |-> depth, finger |-> finger,
   child_number |-> child_number, chain_code |-> chain_code, data |-> data]

NoKey == KeyRecord(<<>>, <<>>, <<>>, <<>>, <<>>, <<>>)

\* the outcome of a call: the exception raised ("none": it returned) and the key
Res(err, key) == [err |-> err, key |-> key]

Fail(err) == Res(err, NoKey)

\* ExtendedKey.__new__: the six length assertions, then the instance
ExtendedKey(version, depth, finger, child_number, chain_code, data) ==
  IF Len(version) = 4 /\ Len(depth) = 1 /\ Len(finger) = 4
       /\ Len(child_number) = 4 /\ Len(chain_code) = 32 /\ Len(data) = 33
  THEN Res("none", KeyRecord(version, depth, finger, child_number, chain_code, data))
  ELSE Fail("AssertionError")

\* ExtendedKey.__str__
KeyStr(k) ==
  b58encode_check(k.version \o k.depth \o k.finger \o k.child_number
                    \o k.chain_code \o k.data)

\* ----------------------------------------------------------- to_public_key
Val(err, val) == [err |-> err, val |-> val]

\* 1 <= secexp < order, which SigningKey.from_string requires
ScalarValid(k) == 1 <= k /\ k < CurveOrder

to_public_key(secret_key) ==
  IF Len(secret_key) # 33 THEN Val("AssertionError", <<>>)
  ELSE IF ~ScalarValid(IntFromBytes(SubSeq(secret_key, 2, 33)))
  THEN Val("MalformedPointError", <<>>)
  ELSE Val("none", Compress(PointMul(IntFromBytes(SubSeq(secret_key, 2, 33)))))

\* ripemd160(sha256(pub_key))[:4]
FingerOf(pub) ==
  IF pub.err # "none" THEN pub ELSE Val("none", Hash4(pub.val, 23))

fingerprint(private_key) == FingerOf(to_public_key(private_key))

\* ----------------------------------------------------------- to_master_key
\* b"Bitcoin seed"
BitcoinSeed == <<66, 105, 116, 99, 111, 105, 110, 32, 115, 101, 101, 100>>

MasterFrom(master, pub, mainnet, private) ==
  IF pub.err # "none" THEN Fail(pub.err)
  ELSE ExtendedKey(VERSIONS(mainnet, private), Zeros(1), Zeros(4), Zeros(4),
                   SubSeq(master, 33, 64),
                   IF private THEN Zeros(1) \o SubSeq(master, 1, 32) ELSE pub.val)

MasterOf(master, mainnet, private) ==
  MasterFrom(master, to_public_key(Zeros(1) \o SubSeq(master, 1, 32)), mainnet, private)

to_master_key(seed, mainnet, private) ==
  MasterOf(hmac_(BitcoinSeed, seed), mainnet, private)

\* -------------------------------------------------------------------- CKDpriv
\* depth.to_bytes(1, "big"): OverflowError outside [0, 256)
DepthFits1(depth) == depth \in 0..255

validate_derived_key(key) ==
  ~(IntFromBytes(SubSeq(key, 1, 32)) = 0
      \/ IntFromBytes(SubSeq(key, 1, 32)) >= CurveOrder)

\* the locals of CKDpriv on entry to its loop
Frame(secret_key, chain_code, index, depth, mainnet, data) ==
  [secret_key |-> secret_key, chain_code |-> chain_code, index |-> index,
   depth |-> depth, mainnet |-> mainnet, hardened |-> GeChildKeyCount(index),
   data |-> data, requested |-> index]

NoFrame == Frame(<<>>, <<>>, PyOfNat(0), 0, TRUE, <<>>)

\* lines 195-204: hardened, secret_int, data; [err, frame]
CKDprivEnter(secret_key, chain_code, index, depth, mainnet) ==
  IF GeChildKeyCount(index)
  THEN [err |-> "none",
        frame |-> Frame(secret_key, chain_code, index, depth, mainnet, secret_key)]
  ELSE IF PointMul(IntFromBytes(SubSeq(secret_key, 2, Len(secret_key)))) = 0
  THEN [err |-> "TypeError", frame |-> NoFrame]
  ELSE [err |-> "none",
        frame |-> Frame(secret_key, chain_code, index, depth, mainnet,
                        Compress(PointMul(IntFromBytes(SubSeq(secret_key, 2, Len(secret_key))))))]

\* line 206
CKDprivDerived(f) == hmac_(f.chain_code, f.data \o IndexToBytes4(f.index))

\* lines 210-214: index += 1 and the assertion on it
CKDprivBump(f) == [f EXCEPT !.index = PyInc(f.index)]

\* the assertion without the normal/hardened distinction
CKDprivBumpOk_OneBound(f) == LtTwo32(PyInc(f.index))

CKDprivBumpOk(f) ==
  IF f.hardened THEN LtTwo32(PyInc(f.index)) ELSE ~GeChildKeyCount(PyInc(f.index))

\* lines 216-228: the child key from the accepted HMAC output
CKDprivChildKey(f, derived, finger) ==
  IF ~DepthFits1(f.depth) THEN Fail("OverflowError")
  ELSE IF finger.err # "none" THEN Fail(finger.err)
  ELSE ExtendedKey(VERSIONS(f.mainnet, TRUE), <<f.depth>>, finger.val,
                   IndexToBytes4(f.index), SubSeq(derived, 33, 64),
                   Zeros(1) \o IntToBytes32(
                     (IntFromBytes(SubSeq(derived, 1, 32)) + IntFromBytes(f.secret_key))
                       % CurveOrder))

CKDprivFinish(f, derived) == CKDprivChildKey(f, derived, fingerprint(f.secret_key))

\* the loop of CKDpriv run to its end: the key, or the error that ends it
RECURSIVE CKDprivLoop(_)
CKDprivTry(f, derived) ==
  IF validate_derived_key(derived) THEN CKDprivFinish(f, derived)
  ELSE IF ~CKDprivBumpOk(f) THEN Fail("AssertionError")
  ELSE CKDprivLoop(CKDprivBump(f))

CKDprivLoop(f) ==
  IF ~IndexFits4(f.index) THEN Fail("OverflowError")
  ELSE CKDprivTry(f, CKDprivDerived(f))

CKDprivFrom(e) == IF e.err # "none" THEN Fail(e.err) ELSE CKDprivLoop(e.frame)

CKDpriv(secret_key, chain_code, index, depth, mainnet) ==
  CKDprivFrom(CKDprivEnter(secret_key, chain_code, index, depth, mainnet))

\* -------------------------------------------------------------------------- N
NFrom(pub, chain_code, index, depth, mainnet, finger) ==
  IF ~DepthFits1(depth) \/ ~IndexFits4(index) THEN Fail("OverflowError")
  ELSE IF pub.err # "none" THEN Fail(pub.err)
  ELSE ExtendedKey(VERSIONS(mainnet, FALSE), <<depth>>, finger,
                   IndexToBytes4(index), chain_code, pub.val)

N(private_key, chain_code, index, depth, mainnet, finger) ==
  NFrom(to_public_key(private_key), chain_code, index, depth, mainnet, finger)

\* --------------------------------------------------------------------- CKDpub
\* the outcome of CKDpub: Res, the indexes an HMAC was computed for, and the
\* child point (0 when none was computed)
PubRes(err, key, tried, point) ==
  [err |-> err, key |-> key, tried |-> tried, point |-> point]

\* lines 263-281 once the HMAC is computed.  The child point is
\* IL*G + parent point; from_public_point fails on the point at infinity;
\* line 280 calls to_bytes() on the bytes object child_key, which has no
\* such method, so the call raises instead of building the ExtendedKey
CKDpubChild(derived, parent, index, depth) ==
  IF ~parent.ok THEN PubRes("MalformedPointError", NoKey, <<index>>, 0)
  ELSE IF PointAdd(PointMul(IntFromBytes(SubSeq(derived, 1, 32))), parent.point) = 0
  THEN PubRes("TypeError", NoKey, <<index>>, 0)
  ELSE IF ~DepthFits1(depth) THEN PubRes("OverflowError", NoKey, <<index>>, 0)
  ELSE PubRes("AttributeError", NoKey, <<index>>,
              PointAdd(PointMul(IntFromBytes(SubSeq(derived, 1, 32))), parent.point))

\* the guard off by one: index > NORMAL_CHILD_KEY_COUNT
CKDpub_GuardOffByOne(public_key, chain_code, index, depth, finger, mainnet) ==
  IF GeChildKeyCount(index) /\ index # PInt(1, 0) THEN PubRes("ValueError", NoKey, <<>>, 0)
  ELSE IF ~IndexFits4(index) THEN PubRes("OverflowError", NoKey, <<>>, 0)
  ELSE CKDpubChild(hmac_(chain_code, public_key \o IndexToBytes4(index)),
                   Decompress(public_key), index, depth)

CKDpub(public_key, chain_code, index, depth, finger, mainnet) ==
  IF GeChildKeyCount(index) THEN PubRes("ValueError", NoKey, <<>>, 0)
  ELSE IF ~IndexFits4(index) THEN PubRes("OverflowError", NoKey, <<>>, 0)
  ELSE CKDpubChild(hmac_(chain_code, public_key \o IndexToBytes4(index)),
                   Decompress(public_key), index, depth)

\* ------------------------------------------------------------------- paths
\* text.split(sep)
RECURSIVE Split(_, _)
SplitAt(text, sep, i) ==
  <<SubSeq(text, 1, i - 1)>> \o Split(SubSeq(text, i + 1, Len(text)), sep)

Split(text, sep) ==
  IF \A i \in 1..Len(text) : text[i] # sep THEN <<text>>
  ELSE SplitAt(text, sep,
               CHOOSE i \in 1..Len(text) :
                 text[i] = sep /\ \A j \in 1..(i - 1) : text[j] # sep)

\* [segment_to_index(s) for s in segments[1:]]: the pairs, or the first error
SegmentsToIndexes(segments) ==
  IF \E i \in 2..Len(segments) : segment_to_index(segments[i]).err # "none"
  THEN [err |-> segment_to_index(segments[
                  CHOOSE i \in 2..Len(segments) :
                    /\ segment_to_index(segments[i]).err # "none"
                    /\ \A j \in 2..(i - 1) : segment_to_index(segments[j]).err = "none"]).err,
        indexes |-> <<>>]
  ELSE [err |-> "none",
        indexes |-> [i \in 1..(Len(segments) - 1) |-> segment_to_index(segments[i + 1])]]

\* ======================================================== derivation machine
VARIABLES
  pc,          \* "call": the call is about to run; "loop": at the head of
               \* CKDpriv's while loop; "done": the call returned or raised
  call,        \* the call and its arguments
  frame,       \* the locals of the running CKDpriv
  indexes,     \* derive_key: the parsed path
  pos,         \* derive_key: depth, the segment being derived
  result,      \* what the call returned or raised
  hmacs,       \* how many times the call has evaluated hmac_
  tried,       \* the indexes the running CKDpriv / CKDpub computed an HMAC for
  text,        \* the base58check text __str__ made or parse_ext_key is given
  made         \* the ExtendedKey instances the codec call has constructed

vars == <<pc, call, frame, indexes, pos, result, hmacs, tried, text, made>>

\* what the derivation calls leave alone
codec == <<text, made>>

Pending == Fail("pending")

\* the state a step leaves behind; hm is the number of hmac_ calls it made
Post(pc_, frame_, pos_, result_, hm) ==
  [pc |-> pc_, frame |-> frame_, pos |-> pos_, result |-> result_, hm |-> hm]

PostDone(pos_, result_, hm) == Post("done", NoFrame, pos_, result_, hm)

\* a call of CKDpriv up to the head of its loop
EnterCKDpriv(e, pos_, hm) ==
  IF e.err # "none" THEN PostDone(pos_, Fail(e.err), hm)
  ELSE Post("loop", e.frame, pos_, Pending, hm)

\* enumerate(indexes) without its start: depth counted from 0
EnterSegment_DepthFromZero(parent_key, idxs, pos_, mainnet, hm) ==
  EnterCKDpriv(CKDprivEnter(parent_key.data, parent_key.chain_code,
                            idxs[pos_].index, pos_ - 1, mainnet), pos_, hm)

\* derive_key line 126: CKDpriv for segment pos_ of the path
EnterSegment(parent_key, idxs, pos_, mainnet, hm) ==
  EnterCKDpriv(CKDprivEnter(parent_key.data, parent_key.chain_code,
                            idxs[pos_].index, pos_, mainnet), pos_, hm)

\* derive_key lines 148-155
AfterCKDpub(pub, pos_) ==
  PostDone(pos_, Res(pub.err, pub.key), Len(pub.tried))

\* derive_key lines 144-155, given what N returned
AfterN(n, c, idxs, pos_) ==
  IF n.err # "none" THEN PostDone(pos_, Fail(n.err), 0)
  ELSE IF idxs[pos_].hardened THEN PostDone(pos_, n, 0)
  ELSE AfterCKDpub(CKDpub(n.key.data, n.key.chain_code, idxs[pos_].index, pos_,
                          n.key.finger, c.mainnet), pos_)

\* derive_key lines 133-159, given what CKDpriv returned for segment pos_
AfterCKDpriv(next, c, idxs, pos_) ==
  IF next.err # "none" THEN PostDone(pos_, Fail(next.err), 0)
  ELSE IF pos_ = Len(idxs) /\ ~c.private
  THEN AfterN(N(next.key.data, next.key.chain_code, idxs[pos_].index, pos_,
                c.mainnet, next.key.finger), c, idxs, pos_)
  ELSE IF pos_ = Len(idxs) THEN PostDone(pos_, next, 0)
  ELSE EnterSegment(next.key, idxs, pos_ + 1, c.mainnet, 0)

\* derive_key lines 114-118, given the parsed path
DeriveFromMaster(master, idxs, c) ==
  IF master.err # "none" THEN PostDone(0, Fail(master.err), 1)
  ELSE IF idxs = <<>> THEN PostDone(0, master, 1)
  ELSE EnterSegment(master.key, idxs, 1, c.mainnet, 1)

DeriveFromIndexes(parsed, c) ==
  IF parsed.err # "none" THEN PostDone(0, Fail(parsed.err), 0)
  ELSE DeriveFromMaster(
         to_master_key(c.seed, c.mainnet, IF parsed.indexes = <<>> THEN c.private ELSE TRUE),
         parsed.indexes, c)

\* derive_key lines 110-113
DeriveFromSegments(segments, c) ==
  IF segments[1] # <<"m">> THEN PostDone(0, Fail("AssertionError"), 0)
  ELSE DeriveFromIndexes(SegmentsToIndexes(segments), c)

DeriveStart(c) == DeriveFromSegments(Split(c.path, "/"), c)

ParsedIndexes(c) == SegmentsToIndexes(Split(c.path, "/")).indexes

Apply(post, hm) ==
  /\ pc' = post.pc
  /\ frame' = post.frame
  /\ pos' = post.pos
  /\ result' = post.result
  /\ hmacs' = hmacs + hm + post.hm

\* tried is per call of CKDpriv: a step that enters the next CKDpriv resets it
Tried(post, index) == IF post.pc = "loop" THEN <<>> ELSE Append(tried, index)

\* derive_key, from its call to the head of CKDpriv's loop or to its end
CallDeriveKey ==
  /\ pc = "call" /\ call.op = "derive_key"
  /\ Apply(DeriveStart(call), 0)
  /\ indexes' = IF DeriveStart(call).pc = "loop" THEN ParsedIndexes(call) ELSE <<>>
  /\ UNCHANGED <<call, tried, codec>>

\* CKDpriv called on its own
CallCKDpriv ==
  /\ pc = "call" /\ call.op = "CKDpriv"
  /\ Apply(EnterCKDpriv(CKDprivEnter(call.secret_key, call.chain_code, call.index,
                                     call.depth, call.mainnet), 0, 0), 0)
  /\ UNCHANGED <<call, indexes, tried, codec>>

\* an iteration of CKDpriv's loop that cannot encode index in four bytes
CKDprivOverflow ==
  /\ pc = "loop" /\ ~IndexFits4(frame.index)
  /\ Apply(PostDone(pos, Fail("OverflowError"), 0), 0)
  /\ UNCHANGED <<call, indexes, tried, codec>>

\* an iteration whose HMAC output is invalid: index += 1, and the assertion
CKDprivRetry ==
  /\ pc = "loop" /\ IndexFits4(frame.index)
  /\ ~validate_derived_key(CKDprivDerived(frame))
  /\ Apply(IF CKDprivBumpOk(frame)
           THEN Post("loop", CKDprivBump(frame), pos, Pending, 0)
           ELSE PostDone(pos, Fail("AssertionError"), 0), 1)
  /\ tried' = Append(tried, frame.index)
  /\ UNCHANGED <<call, indexes, codec>>

\* what follows the return of CKDpriv: its caller's result, or the rest of
\* derive_key's loop body
Returned(next, c, idxs, pos_) ==
  IF c.op = "derive_key" THEN AfterCKDpriv(next, c, idxs, pos_)
  ELSE PostDone(pos_, next, 0)

ApplyReturn(post, index) == Apply(post, 1) /\ tried' = Tried(post, index)

\* the iteration that breaks out of the loop: CKDpriv builds the child key
\* and returns it, to its caller or into derive_key's loop body
CKDprivReturn ==
  /\ pc = "loop" /\ IndexFits4(frame.index)
  /\ validate_derived_key(CKDprivDerived(frame))
  /\ ApplyReturn(Returned(CKDprivFinish(frame, CKDprivDerived(frame)),
                          call, indexes, pos), frame.index)
  /\ UNCHANGED <<call, indexes, codec>>

\* CKDpub called on its own
CallCKDpub ==
  /\ pc = "call" /\ call.op = "CKDpub"
  /\ Apply(AfterCKDpub(CKDpub(call.public_key, call.chain_code, call.index,
                              call.depth, call.finger, call.mainnet), 0), 0)
  /\ tried' = CKDpub(call.public_key, call.chain_code, call.index,
                     call.depth, call.finger, call.mainnet).tried
  /\ UNCHANGED <<call, indexes, codec>>

\* ------------------------------------------------------- the calls explored
Seeds == {<<s>> : s \in 1..NumSeeds}

Text2147483647 == <<"2", "1", "4", "7", "4", "8", "3", "6", "4", "7">>
Text2147483648 == <<"2", "1", "4", "7", "4", "8", "3", "6", "4", "8">>

PathSegments ==
  { <<"0">>, <<"1">>, <<"0", "'">>, <<"1", "h">>,
    Text2147483647, Text2147483647 \o <<"H">> }

RECURSIVE JoinSegments(_, _)
JoinSegments(segs, i) ==
  IF i > Len(segs) THEN <<>> ELSE <<"/">> \o segs[i] \o JoinSegments(segs, i + 1)

PathOf(segs) == <<"m">> \o JoinSegments(segs, 1)

GoodPaths ==
  {PathOf(segs) : segs \in UNION {[1..n -> PathSegments] : n \in 0..MaxPathLen}}

BadPaths ==
  { <<>>, <<"n", "/", "0">>, <<"m", "/">>, <<"m", "/", "x">>,
    <<"m", "/", "-", "1">>, <<"m", "/", "-", "1", "'">>,
    <<"m", "/">> \o Text2147483648,
    <<"m", "/", "0", "/", "/", "1">> }

DeriveCalls ==
  [op : {"derive_key"}, seed : Seeds, path : GoodPaths \cup BadPaths,
   mainnet : BOOLEAN, private : BOOLEAN]

\* 0, 1, 2^31-2, 2^31-1, 2^31, 2^31+1, 2^32-2, 2^32-1, 2^32 and -1
DirectIndexes ==
  { PInt(0, 0), PInt(0, 1), PInt(0, MaxNormalIndex - 1), PInt(0, MaxNormalIndex),
    PInt(1, 0), PInt(1, 1), PInt(1, MaxNormalIndex - 1), PInt(1, MaxNormalIndex),
    PInt(2, 0), PInt(-1, MaxNormalIndex) }

ChainCodes == {Zeros(32), Zeros(31) \o <<1>>}

\* parent private keys: every scalar of the curve, and the invalid 0 and order
PrivCalls ==
  [op : {"CKDpriv"},
   secret_key : {Zeros(1) \o IntToBytes32(k) : k \in 0..CurveOrder},
   chain_code : ChainCodes, index : DirectIndexes, depth : {1, 256},
   mainnet : BOOLEAN]

\* parent public keys: every finite point, and 33 bytes that are no point
PubCalls ==
  [op : {"CKDpub"},
   public_key : {Compress(k) : k \in 1..(CurveOrder - 1)} \cup {Zeros(33)},
   chain_code : ChainCodes, index : DirectIndexes, depth : {1},
   finger : {Zeros(4)}, mainnet : BOOLEAN]

DInit ==
  /\ pc = "call"
  /\ call \in DeriveCalls \cup PrivCalls \cup PubCalls
  /\ frame = NoFrame
  /\ indexes = <<>>
  /\ pos = 0
  /\ result = Pending
  /\ hmacs = 0
  /\ tried = <<>>
  /\ text = <<>>
  /\ made = {}

DNext ==
  \/ CallDeriveKey
  \/ CallCKDpriv
  \/ CKDprivOverflow
  \/ CKDprivRetry
  \/ CKDprivReturn
  \/ CallCKDpub

SpecDerive == DInit /\ [][DNext]_vars

\* ================================================= properties of derivation
\* x <= y on Python ints
PyLe(x, y) == x.h < y.h \/ (x.h = y.h /\ x.r <= y.r)

\* the path of a derive_key call is well formed: root m, every segment parsed
PathOk(c) ==
  /\ Split(c.path, "/")[1] = <<"m">>
  /\ SegmentsToIndexes(Split(c.path, "/")).err = "none"

\* CKDpriv applied once per segment in path order, segment k at depth k,
\* each step from the key data and chain code of the step before
RECURSIVE FoldCKDpriv(_, _, _, _)
FoldCKDpriv(key, idxs, k, mainnet) ==
  IF key.err # "none" \/ k > Len(idxs) THEN key
  ELSE FoldCKDpriv(CKDpriv(key.key.data, key.key.chain_code, idxs[k].index, k, mainnet),
                   idxs, k + 1, mainnet)

PrivateDerivation(c) ==
  FoldCKDpriv(to_master_key(c.seed, c.mainnet, TRUE), ParsedIndexes(c), 1, c.mainnet)

ScalarOf(key) == IntFromBytes(SubSeq(key.data, 2, 33))

NeuteredOf(pub, priv) ==
  /\ pub.err = "none"
  /\ pub.key.depth = priv.key.depth
  /\ pub.key.finger = priv.key.finger
  /\ pub.key.child_number = priv.key.child_number
  /\ pub.key.chain_code = priv.key.chain_code
  /\ pub.key.data = Compress(PointMul(ScalarOf(priv.key)))

\* C1: derive_key(seed, path, net, private=False) on a path with at least one
\* segment is the neutered form of derive_key(seed, path, net, private=True):
\* the same depth, finger, child_number and chain_code, and the compressed
\* public key of the private result's scalar as key data.
C1_PublicIsNeuteredPrivate ==
  (pc = "done" /\ call.op = "derive_key" /\ ~call.private
     /\ PathOk(call) /\ ParsedIndexes(call) # <<>>
     /\ PrivateDerivation(call).err = "none"
     /\ ScalarValid(ScalarOf(PrivateDerivation(call).key)))
    => NeuteredOf(result, PrivateDerivation(call))

\* C2: derive_key with private=True on a path of n segments returns exactly
\* the fold of CKDpriv over the segments from the private master key, step k
\* at depth k; on the path "m" it returns to_master_key(seed, net, private)
\* for either visibility.
C2_PrivateIsFoldOfCKDpriv ==
  (pc = "done" /\ call.op = "derive_key" /\ PathOk(call))
    => IF ParsedIndexes(call) = <<>>
       THEN result = to_master_key(call.seed, call.mainnet, call.private)
       ELSE call.private => result = PrivateDerivation(call)

C2_Witness ==
  /\ pc = "done" /\ call.op = "derive_key" /\ call.private
  /\ result.err = "none" /\ result.key.depth = <<2>>
  /\ result.key.child_number # IndexToBytes4(ParsedIndexes(call)[2].index)

\* C5: CKDpub called with an index >= 2^31 fails with ValueError before any
\* HMAC or curve computation and returns no key.
C5_HardenedCKDpubRejected ==
  (pc = "done" /\ call.op = "CKDpub" /\ GeChildKeyCount(call.index))
    => /\ result.err = "ValueError"
       /\ result.key = NoKey
       /\ hmacs = 0
       /\ tried = <<>>

C5_Witness ==
  /\ pc = "done" /\ call.op = "CKDpub"
  /\ call.index = PInt(1, 0)
  /\ Decompress(call.public_key).ok
  /\ result.err = "ValueError"

PubDerived(c) == hmac_(c.chain_code, c.public_key \o IndexToBytes4(c.index))

PubInvalidAt(c) ==
  \/ IntFromBytes(SubSeq(PubDerived(c), 1, 32)) >= CurveOrder
  \/ PointAdd(PointMul(IntFromBytes(SubSeq(PubDerived(c), 1, 32))),
              Decompress(c.public_key).point) = 0

\* C8: when the left half of CKDpub's HMAC output is >= the curve order, or
\* the child point is the point at infinity, CKDpub does not use that index
\* but retries with index + 1 (below 2^31).
C8_CKDpubRetriesInvalid ==
  (pc = "done" /\ call.op = "CKDpub"
     /\ IndexFits4(call.index) /\ ~GeChildKeyCount(PyInc(call.index))
     /\ Decompress(call.public_key).ok
     /\ PubInvalidAt(call))
    => Len(tried) >= 2 /\ tried[2] = PyInc(call.index)

TriedFrom(requested) ==
  \A i \in 1..Len(tried) :
    tried[i] = PyAdd(requested, PyOfNat(i - 1))

CKDprivLoopInv ==
  pc = "loop" =>
    /\ PyLe(frame.requested, frame.index)
    /\ frame.index = PyAdd(frame.requested, PyOfNat(Len(tried)))
    /\ TriedFrom(frame.requested)
    /\ GeChildKeyCount(frame.index) = GeChildKeyCount(frame.requested)
    /\ IndexFits4(frame.requested) => IndexFits4(frame.index)
    /\ \A i \in 1..Len(tried) :
         ~validate_derived_key(CKDprivDerived([frame EXCEPT !.index = tried[i]]))

DirectFrame(c) ==
  CKDprivEnter(c.secret_key, c.chain_code, c.index, c.depth, c.mainnet).frame

Last(sq) == sq[Len(sq)]

CKDprivReturnInv ==
  (pc = "done" /\ call.op = "CKDpriv" /\ result.err = "none") =>
    /\ tried # <<>> /\ TriedFrom(call.index)
    /\ result.key.child_number = IndexToBytes4(Last(tried))
    /\ PyLe(call.index, Last(tried))
    /\ GeChildKeyCount(Last(tried)) = GeChildKeyCount(call.index)
    /\ validate_derived_key(CKDprivDerived([DirectFrame(call) EXCEPT !.index = Last(tried)]))
    /\ result = CKDprivFinish([DirectFrame(call) EXCEPT !.index = Last(tried)],
                              CKDprivDerived([DirectFrame(call) EXCEPT !.index = Last(tried)]))

CKDprivFatalInv ==
  (pc = "done" /\ call.op = "CKDpriv" /\ result.err = "AssertionError") =>
    /\ tried # <<>> /\ TriedFrom(call.index)
    /\ Last(tried).r = MaxNormalIndex
    /\ Last(tried).h = (IF GeChildKeyCount(call.index) THEN 1 ELSE 0)

\* the iterations left before index reaches the end of its half
Variant(f) == MaxNormalIndex - f.index.r

\* a step from the head of the loop back to it, within one call of CKDpriv
CKDprivStep ==
  (pc = "loop" /\ pc' = "loop" /\ tried' # <<>>)
    => /\ frame'.index = PyInc(frame.index)
       /\ tried' = Append(tried, frame.index)
       /\ Variant(frame') >= 0
       /\ Variant(frame') < Variant(frame)

\* C9: CKDpriv's retry loop: every iteration with an invalid HMAC output
\* raises index by exactly 1, the call fails as soon as the raised index
\* would reach 2^31 (normal) or 2^32 (hardened), so index stays in the half
\* of the index space it was requested in; a returned key carries as
\* child_number the index >= the requested one whose HMAC output made it;
\* and the loop terminates: every iteration that returns to the head of the
\* loop lowers Variant, a natural number.
C9_RetryLoopBounded ==
  /\ [](CKDprivLoopInv /\ CKDprivReturnInv /\ CKDprivFatalInv)
  /\ [][CKDprivStep]_vars

C9_Witness ==
  /\ pc = "done" /\ call.op = "CKDpriv" /\ result.err = "none"
  /\ Len(tried) >= 3

\* the loop also ends by its assertion, at the end of either half
FatalReached ==
  /\ pc = "done" /\ call.op = "CKDpriv" /\ result.err = "AssertionError"
  /\ Len(tried) >= 2

\* C10: every private key CKDpriv returns has key data 0x00 followed by a
\* scalar strictly between 0 and the curve order.
C10_ChildScalarInRange ==
  (pc = "done" /\ call.op = "CKDpriv" /\ result.err = "none")
    => /\ result.key.data[1] = 0
       /\ 0 < ScalarOf(result.key)
       /\ ScalarOf(result.key) < CurveOrder

\* ======================================================== segment_to_index
SegAlphabet == {"0", "1", "7", "h", "H", "'", "-", "+", "x", " ", "_"}

SegTexts ==
  UNION {[1..n -> SegAlphabet] : n \in 0..MaxSegLen}
    \cup { Text2147483647, Text2147483648,
           Text2147483647 \o <<"'">>, Text2147483648 \o <<"h">>,
           <<"-">> \o Text2147483648, <<"-">> \o Text2147483648 \o <<"H">> }

SegCalls == [op : {"segment_to_index"}, segment : SegTexts]

SInit ==
  /\ pc = "call"
  /\ call \in SegCalls
  /\ frame = NoFrame
  /\ indexes = <<>>
  /\ pos = 0
  /\ result = SegFail("pending")
  /\ hmacs = 0
  /\ tried = <<>>
  /\ text = <<>>
  /\ made = {}

CallSegmentToIndex ==
  /\ pc = "call" /\ call.op = "segment_to_index"
  /\ pc' = "done"
  /\ result' = segment_to_index(call.segment)
  /\ UNCHANGED <<call, frame, indexes, pos, hmacs, tried, codec>>

SNext == CallSegmentToIndex

SpecSegment == SInit /\ [][SNext]_vars

Marked(segment) == segment # <<>> /\ Last(segment) \in HardenedMarks

Unmarked(segment) ==
  IF Marked(segment) THEN SubSeq(segment, 1, Len(segment) - 1) ELSE segment

AllDigits(t) == t # <<>> /\ \A i \in 1..Len(t) : t[i] \in Digits

InGrammar(segment) ==
  /\ AllDigits(Unmarked(segment))
  /\ DigitsValue(Unmarked(segment), PyOfNat(0)).h = 0

\* C6: segment_to_index accepts exactly the segments digits[h|H|'] whose raw
\* index is below 2^31; it returns (raw, false) without a mark and
\* (raw + 2^31, true) with one, so an accepted index is in [0, 2^32) and is
\* >= 2^31 exactly when hardened; every other segment fails with an error.
C6_SegmentGrammar ==
  (pc = "done" /\ call.op = "segment_to_index")
    => IF InGrammar(call.segment)
       THEN /\ result.err = "none"
            /\ result.hardened = Marked(call.segment)
            /\ result.index =
                 IF Marked(call.segment)
                 THEN AddChildKeyCount(DigitsValue(Unmarked(call.segment), PyOfNat(0)))
                 ELSE DigitsValue(Unmarked(call.segment), PyOfNat(0))
            /\ IndexFits4(result.index)
            /\ GeChildKeyCount(result.index) = result.hardened
       ELSE result.err # "none"

\* =================================================================== codec
\* the slices with finger taken one byte late
ParseFields_FingerShifted(dec) ==
  ExtendedKey(SubSeq(dec, 1, 4), SubSeq(dec, 5, 5), SubSeq(dec, 7, 10),
              SubSeq(dec, 10, 13), SubSeq(dec, 14, 45), SubSeq(dec, 46, Len(dec)))

\* parse_ext_key lines 169-176: the slices of the 78 bytes
ParseFields(dec) ==
  ExtendedKey(SubSeq(dec, 1, 4), SubSeq(dec, 5, 5), SubSeq(dec, 6, 9),
              SubSeq(dec, 10, 13), SubSeq(dec, 14, 45), SubSeq(dec, 46, Len(dec)))

\* the outcome of a codec call: Res and the instances it constructed
Made(res, instances) == [res |-> res, made |-> instances]

\* the instance returned without the assertion on its version
ParseChecks_VersionUnchecked(k) ==
  IF k.err # "none" THEN Made(Fail(k.err), {}) ELSE Made(k, {k.key})

\* parse_ext_key lines 178-185: the assertions on the instance just built
ParseChecks(k) ==
  IF k.err # "none" THEN Made(Fail(k.err), {})
  ELSE IF k.key.version \notin KnownVersions THEN Made(Fail("AssertionError"), {k.key})
  ELSE Made(k, {k.key})

ParseDecoded(d) ==
  IF ~d.ok THEN Made(Fail("ValueError"), {})
  ELSE IF Len(d.val) # 78 THEN Made(Fail("AssertionError"), {})
  ELSE ParseChecks(ParseFields(d.val))

parse_ext_key(key) == ParseDecoded(b58decode_check(key))

SampleData == Zeros(1) \o IntToBytes32(5)

SampleChain == [i \in 1..32 |-> (i * 37) % 256]

ValidKeys ==
  { KeyRecord(v, d, f, c, cc, kd) :
      v \in KnownVersions, d \in {<<0>>, <<255>>}, f \in {Zeros(4), <<1, 2, 3, 4>>},
      c \in {Zeros(4), <<128, 0, 0, 1>>}, cc \in {Zeros(32), SampleChain},
      kd \in {SampleData, <<3>> \o SampleChain} }

PayloadOf(k) ==
  k.version \o k.depth \o k.finger \o k.child_number \o k.chain_code \o k.data

\* the keys whose text forms are altered to make the rejected inputs
BaseKeys ==
  { KeyRecord(v, <<1>>, <<1, 2, 3, 4>>, <<128, 0, 0, 1>>, SampleChain, SampleData) :
      v \in {MainnetPublic, TestnetPrivate} }

UnknownVersions == {Zeros(4), <<4, 136, 178, 31>>, <<4, 53, 131, 0>>}

\* text with the character at position p replaced by the one d places on
Altered(t, p, d) ==
  [t EXCEPT ![p] = BITCOIN_ALPHABET[((CharIndex(t[p]) - 1 + d) % 58) + 1]]

AlteredTexts(t) ==
  {Altered(t, p, d) : p \in {1, 2, 57, Len(t)}, d \in {1, 29}}
    \cup {[t EXCEPT ![3] = "0"], [t EXCEPT ![Len(t)] = "l"], t \o <<" ">>, t}

WrongLengthTexts(k) ==
  { b58encode_check(SubSeq(PayloadOf(k), 1, 77)), b58encode_check(PayloadOf(k) \o <<0>>),
    b58encode_check(SubSeq(PayloadOf(k), 1, 4)), b58encode_check(<<>>), <<>> }

UnknownVersionTexts(k) ==
  {b58encode_check(v \o SubSeq(PayloadOf(k), 5, 78)) : v \in UnknownVersions}

ParseTexts ==
  UNION { AlteredTexts(KeyStr(k)) \cup WrongLengthTexts(k) \cup UnknownVersionTexts(k) :
            k \in BaseKeys }

ConstructorCalls ==
  [op : {"ExtendedKey"},
   version : {MainnetPublic, TestnetPrivate, Zeros(4), <<4, 136>>},
   depth : {<<0>>, <<>>, <<0, 1>>}, finger : {Zeros(4), Zeros(3)},
   child_number : {Zeros(4), Zeros(5)}, chain_code : {Zeros(32), Zeros(31)},
   data : {SampleData, Zeros(32)}]

CodecCalls ==
  [op : {"str"}, key : ValidKeys]
    \cup [op : {"parse_ext_key"}, text : ParseTexts]
    \cup ConstructorCalls

CInit ==
  /\ call \in CodecCalls
  /\ pc = (IF call.op = "parse_ext_key" THEN "parse" ELSE "call")
  /\ text = (IF call.op = "parse_ext_key" THEN call.text ELSE <<>>)
  /\ frame = NoFrame
  /\ indexes = <<>>
  /\ pos = 0
  /\ result = Pending
  /\ hmacs = 0
  /\ tried = <<>>
  /\ made = {}

\* ExtendedKey(...) called on its own
CallExtendedKey ==
  /\ pc = "call" /\ call.op = "ExtendedKey"
  /\ pc' = "done"
  /\ result' = ExtendedKey(call.version, call.depth, call.finger,
                           call.child_number, call.chain_code, call.data)
  /\ made' = IF result'.err = "none" THEN {result'.key} ELSE {}
  /\ UNCHANGED <<call, frame, indexes, pos, hmacs, tried, text>>

\* str(key)
CallStr ==
  /\ pc = "call" /\ call.op = "str"
  /\ pc' = "parse"
  /\ text' = KeyStr(call.key)
  /\ UNCHANGED <<call, frame, indexes, pos, result, hmacs, tried, made>>

ApplyParse(m) == result' = m.res /\ made' = m.made

\* parse_ext_key(text)
CallParseExtKey ==
  /\ pc = "parse"
  /\ pc' = "done"
  /\ ApplyParse(parse_ext_key(text))
  /\ UNCHANGED <<call, frame, indexes, pos, hmacs, tried, text>>

CNext ==
  \/ CallExtendedKey
  \/ CallStr
  \/ CallParseExtKey

SpecCodec == CInit /\ [][CNext]_vars

\* C3: for every valid ExtendedKey k, parse_ext_key(str(k)) equals k in
\* every field.
C3_ParseOfStrIsKey ==
  (pc = "done" /\ call.op = "str") => result = Res("none", call.key)

C3_Witness ==
  /\ pc = "done" /\ call.op = "str"
  /\ call.key.version = TestnetPrivate /\ call.key.child_number = <<128, 0, 0, 1>>
  /\ call.key.depth = <<255>> /\ call.key.finger = <<1, 2, 3, 4>>
  /\ call.key.chain_code = SampleChain /\ call.key.data = SampleData
  /\ result.err = "none"

ChecksumWrong(t) ==
  b58decode(t).ok /\ ~b58decode_check(t).ok

PayloadLengthWrong(t) ==
  b58decode_check(t).ok /\ Len(b58decode_check(t).val) # 78

VersionUnknown(t) ==
  /\ b58decode_check(t).ok
  /\ Len(b58decode_check(t).val) >= 4
  /\ SubSeq(b58decode_check(t).val, 1, 4) \notin KnownVersions

\* C4: parse_ext_key fails with AssertionError or ValueError and returns no
\* key when the checksum is wrong, when the payload is not 78 bytes long, or
\* when its first four bytes are not a known version.
C4_ParseRejects ==
  (pc = "done" /\ call.op = "parse_ext_key"
     /\ (ChecksumWrong(text) \/ PayloadLengthWrong(text) \/ VersionUnknown(text)))
    => result.err \in {"AssertionError", "ValueError"} /\ result.key = NoKey

C4_Witness ==
  /\ pc = "done" /\ call.op = "parse_ext_key"
  /\ VersionUnknown(text) /\ ~PayloadLengthWrong(text)
  /\ result.err = "AssertionError"

WellFormed(k) ==
  /\ Len(k.version) = 4 /\ Len(k.depth) = 1 /\ Len(k.finger) = 4
  /\ Len(k.child_number) = 4 /\ Len(k.chain_code) = 32 /\ Len(k.data) = 33
  /\ k.version \in KnownVersions

\* C7: no ExtendedKey instance is ever constructed with a wrong field length
\* or with a version that is not one of the four known constants.
C7_OnlyWellFormedInstances == \A k \in made : WellFormed(k)

====
